---- MODULE Spec2Model ----
(***************************************************************************)
(* Password Strength Analyzer: the Index page (local rule-based analysis,  *)
(* submitToBackend) and the backend Breach Checker's rate limiter.         *)
(*                                                                         *)
(* A password is a sequence of one-character strings.                      *)
(***************************************************************************)
EXTENDS Integers, Sequences, FiniteSets, TLC

VARIABLES
    password,     \* useState('')                     Index.password
    analysis,     \* useState<PasswordAnalysis|null>  Index.analysis
    isLoading,    \* useState(false)                  Index.isLoading
    inflight,     \* the pending fetches of submitToBackend: their request bodies
    toastTitle,   \* title of the last toast shown
    analysisOf,   \* history: the password the current analysis was computed for
    probe,        \* history: one earlier local evaluation and what followed it
    fnPassword,   \* function bench: the argument the analysis functions are applied to
    fnResult,     \* function bench: what they returned
    fnBefore,     \* function bench: argument and result before a character was substituted
    now,              \* Breach Checker: the clock, in half time units
    lastRequestTime,  \* Breach Checker: the shared time of the last outbound request
    lockHolders,      \* Breach Checker: the lookups inside the guarded section
    pc,               \* Breach Checker: where each lookup is
    wakeAt,           \* Breach Checker: the time each lookup sleeps until
    arrivedAt,        \* Breach Checker: when each lookup was called
    sentAt,           \* Breach Checker: when each lookup's request went out
    evInput,      \* evaluate: the per-method scores, the weights, the checkBreach option
    evStage,      \* evaluate: where the call is
    evRemote,     \* evaluate: what the remote breach corpus answered
    evReport      \* evaluate: the AggregateReport returned

pageVars == <<password, analysis, isLoading, inflight, toastTitle, analysisOf, probe>>
fnVars == <<fnPassword, fnResult, fnBefore>>
breachVars == <<now, lastRequestTime, lockHolders, pc, wakeAt, arrivedAt, sentAt>>
evalVars == <<evInput, evStage, evRemote, evReport>>
vars == <<pageVars, fnVars, breachVars, evalVars>>

\* JavaScript's null; reading a field of it is an error, as in the program
null == [isNull |-> TRUE]

\* ------------------------------------------------------------------ text

LowerChars ==
    <<"a","b","c","d","e","f","g","h","i","j","k","l","m",
      "n","o","p","q","r","s","t","u","v","w","x","y","z">>
UpperChars ==
    <<"A","B","C","D","E","F","G","H","I","J","K","L","M",
      "N","O","P","Q","R","S","T","U","V","W","X","Y","Z">>
DigitChars == <<"0","1","2","3","4","5","6","7","8","9">>

Range(s) == {s[i] : i \in DOMAIN s}

LowerSet == Range(LowerChars)
UpperSet == Range(UpperChars)
DigitSet == Range(DigitChars)

\* /[a-z]/, /[A-Z]/, /\d/ and /[^A-Za-z0-9]/ on one character
IsLower(c) == c \in LowerSet
IsUpper(c) == c \in UpperSet
IsDigit(c) == c \in DigitSet
IsSymbol(c) == ~(IsLower(c) \/ IsUpper(c) \/ IsDigit(c))

\* RegExp.prototype.test with an unanchored one-character class
TestLower(pw) == \E i \in DOMAIN pw : IsLower(pw[i])
TestUpper(pw) == \E i \in DOMAIN pw : IsUpper(pw[i])
TestDigit(pw) == \E i \in DOMAIN pw : IsDigit(pw[i])
TestSymbol(pw) == \E i \in DOMAIN pw : IsSymbol(pw[i])

\* String.prototype.toLowerCase (ASCII letters)
ToLowerChar(c) ==
    IF IsUpper(c)
    THEN LowerChars[CHOOSE i \in DOMAIN UpperChars : UpperChars[i] = c]
    ELSE c
ToLowerCase(pw) == [i \in DOMAIN pw |-> ToLowerChar(pw[i])]

\* String.prototype.includes
Includes(s, word) ==
    \E k \in 0..(Len(s) - Len(word)) :
        \A j \in 1..Len(word) : s[k + j] = word[j]

W_password == <<"p","a","s","s","w","o","r","d">>
W_123456 == <<"1","2","3","4","5","6">>
W_qwerty == <<"q","w","e","r","t","y">>
W_admin == <<"a","d","m","i","n">>
W_login == <<"l","o","g","i","n">>
W_welcome == <<"w","e","l","c","o","m","e">>
W_asdf == <<"a","s","d","f">>
W_1234 == <<"1","2","3","4">>
W_abcd == <<"a","b","c","d">>

commonWords == {W_password, W_123456, W_qwerty, W_admin, W_login, W_welcome}
patterns == {W_qwerty, W_asdf, W_1234, W_abcd}

checkCommonWords(pw) ==
    LET lower == ToLowerCase(pw)
    IN  \E word \in commonWords : Includes(lower, word)

\* checkKeyboardPatterns with the pattern 123 of the suggestion's text for 1234
W_123 == <<"1","2","3">>
checkKeyboardPatterns123(pw) ==
    LET lower == ToLowerCase(pw)
    IN  \E pattern \in {W_qwerty, W_asdf, W_123, W_abcd} : Includes(lower, pattern)
checkKeyboardPatterns(pw) ==
    LET lower == ToLowerCase(pw)
    IN  \E pattern \in patterns : Includes(lower, pattern)

\* ------------------------------------------------------------- features

extractFeatures(pw) ==
    [length |-> Len(pw),
     hasUppercase |-> TestUpper(pw),
     hasLowercase |-> TestLower(pw),
     hasDigits |-> TestDigit(pw),
     hasSymbols |-> TestSymbol(pw),
     hasCommonWords |-> checkCommonWords(pw),
     hasKeyboardPatterns |-> checkKeyboardPatterns(pw)]

Min(a, b) == IF a < b THEN a ELSE b

\* the running sum of calculateScore before Math.min
rawScore(features) ==
      (IF features.length >= 8 THEN 20 ELSE 0)
    + (IF features.length >= 12 THEN 10 ELSE 0)
    + (IF features.hasUppercase THEN 15 ELSE 0)
    + (IF features.hasLowercase THEN 15 ELSE 0)
    + (IF features.hasDigits THEN 15 ELSE 0)
    + (IF features.hasSymbols THEN 20 ELSE 0)
    + (IF ~features.hasCommonWords THEN 15 ELSE 0)
    + (IF ~features.hasKeyboardPatterns THEN 10 ELSE 0)

\* calculateScore without Math.min, and with a zero for the empty password
calculateScoreNoClamp(features) == rawScore(features)
calculateScoreEmptyIsZero(features) ==
    IF features.length = 0 THEN 0 ELSE Min(rawScore(features), 100)
calculateScore(features) == Min(rawScore(features), 100)

\* getStrengthLevel with a fourth bucket, and with its thresholds swapped
getStrengthLevelFourBuckets(score) ==
    IF score < 40 THEN "weak"
    ELSE IF score < 70 THEN "moderate"
    ELSE IF score < 90 THEN "strong"
    ELSE "very strong"
getStrengthLevelSwapped(score) ==
    IF score < 70 THEN "weak"
    ELSE IF score < 40 THEN "moderate"
    ELSE "strong"
getStrengthLevel(score) ==
    IF score < 40 THEN "weak"
    ELSE IF score < 70 THEN "moderate"
    ELSE "strong"

S_length == "Use at least 8 characters"
S_upper == "Add uppercase letters"
S_lower == "Add lowercase letters"
S_digits == "Include numbers"
S_symbols == "Add special characters (!@#$%^&*)"
S_common == "Avoid common words"
S_keyboard == "Avoid keyboard patterns (qwerty, 123)"

Push(cond, s) == IF cond THEN <<s>> ELSE <<>>

\* generateSuggestions without the pushes for common words and keyboard patterns
generateSuggestionsNoPatternChecks(features) ==
       Push(features.length < 8, S_length)
    \o Push(~features.hasUppercase, S_upper)
    \o Push(~features.hasLowercase, S_lower)
    \o Push(~features.hasDigits, S_digits)
    \o Push(~features.hasSymbols, S_symbols)
\* generateSuggestions with the first two pushes exchanged
generateSuggestionsReordered(features) ==
       Push(~features.hasUppercase, S_upper)
    \o Push(features.length < 8, S_length)
    \o Push(~features.hasLowercase, S_lower)
    \o Push(~features.hasDigits, S_digits)
    \o Push(~features.hasSymbols, S_symbols)
    \o Push(features.hasCommonWords, S_common)
    \o Push(features.hasKeyboardPatterns, S_keyboard)
generateSuggestions(features) ==
       Push(features.length < 8, S_length)
    \o Push(~features.hasUppercase, S_upper)
    \o Push(~features.hasLowercase, S_lower)
    \o Push(~features.hasDigits, S_digits)
    \o Push(~features.hasSymbols, S_symbols)
    \o Push(features.hasCommonWords, S_common)
    \o Push(features.hasKeyboardPatterns, S_keyboard)

\* -------------------------------------------------------------- entropy

\* getCharsetSize with = for +=
getCharsetSizeOverwrite(pw) ==
    IF TestSymbol(pw) THEN 32
    ELSE IF TestDigit(pw) THEN 10
    ELSE IF TestUpper(pw) THEN 26
    ELSE IF TestLower(pw) THEN 26
    ELSE 0
getCharsetSize(pw) ==
      (IF TestLower(pw) THEN 26 ELSE 0)
    + (IF TestUpper(pw) THEN 26 ELSE 0)
    + (IF TestDigit(pw) THEN 10 ELSE 0)
    + (IF TestSymbol(pw) THEN 32 ELSE 0)

\* Entropy values are numbers of 1/1024 bit; the two infinities of an IEEE
\* double are the two sentinels below.
FracBits == 10
FixBits == 14
PosInfinity == 1073741824
NegInfinity == -1073741824

RECURSIVE Pow2(_)
Pow2(k) == IF k = 0 THEN 1 ELSE 2 * Pow2(k - 1)

RECURSIVE FloorLog2(_)
FloorLog2(n) == IF n < 2 THEN 0 ELSE 1 + FloorLog2(n \div 2)

\* the FracBits binary digits of log2(x / 2^FixBits) for 2^FixBits <= x < 2^(FixBits+1),
\* by repeated squaring
RECURSIVE FracLog2(_, _)
FracLog2(x, k) ==
    IF k = 0 THEN 0
    ELSE LET sq == (x * x) \div Pow2(FixBits)
         IN  IF sq >= Pow2(FixBits + 1)
             THEN Pow2(k - 1) + FracLog2(sq \div 2, k - 1)
             ELSE FracLog2(sq, k - 1)

\* Math.log2(n) for an integer n >= 1, in 1/1024 bit
Log2Fix(n) ==
    LET e == FloorLog2(n)
    IN  e * Pow2(FracBits) + FracLog2((n * Pow2(FixBits)) \div Pow2(e), FracBits)

\* Math.log2(Math.pow(charset, length)): pow(0, 0) is 1, pow(0, n) is 0 and
\* log2(0) is -Infinity; pow overflows to Infinity from 2^1024 on; otherwise
\* log2(charset^length) = length * log2(charset).
\* length * Math.log2(charset) in place of Math.log2(Math.pow(charset, length))
Log2OfPowNoZeroCase(charset, length) ==
    IF charset = 0 THEN NegInfinity
    ELSE IF length * Log2Fix(charset) >= 1024 * Pow2(FracBits) THEN PosInfinity
    ELSE length * Log2Fix(charset)
Log2OfPow(charset, length) ==
    IF length = 0 THEN 0
    ELSE IF charset = 0 THEN NegInfinity
    ELSE IF length * Log2Fix(charset) >= 1024 * Pow2(FracBits) THEN PosInfinity
    ELSE length * Log2Fix(charset)

calculateEntropy(pw) == Log2OfPow(getCharsetSize(pw), Len(pw))

\* ------------------------------------------------------------- analysis

\* the object analyzePasswordLocally passes to setAnalysis
analyzePasswordLocally(pw) ==
    LET features == extractFeatures(pw)
        score == calculateScore(features)
    IN  [strength |-> getStrengthLevel(score),
         score |-> score,
         entropy |-> calculateEntropy(pw),
         suggestions |-> generateSuggestions(features),
         features |-> features]

\* ------------------------------------------------------- function bench
\* The analysis functions applied directly to an argument (no useEffect guard),
\* then once more after one character of the argument was replaced.

MaxFill == 11

W_Admin == <<"A","d","m","i","n">>
W_ADMIN == <<"A","D","M","I","N">>
W_Qwerty == <<"Q","w","e","r","t","y">>
W_QWERTY == <<"Q","W","E","R","T","Y">>
W_ASDF == <<"A","S","D","F">>
W_password123 == W_password \o <<"1","2","3">>
W_Troubador == <<"T","r","0","u","b","4","d","o","r","&","3","x","y","z","!">>

\* what an argument starts with: nothing, or a word of the two lists in lower,
\* upper or mixed case
FnWords ==
    {<<>>, W_admin, W_ADMIN, W_Admin, W_asdf, W_ASDF, W_1234,
     W_qwerty, W_QWERTY, W_Qwerty, W_123456}
FnChars == {"a", "Z", "7", "#"}

\* one character of each of the chosen classes
Pad(upper, lower, digit, symbol) ==
       (IF upper THEN <<"Z">> ELSE <<>>)
    \o (IF lower THEN <<"a">> ELSE <<>>)
    \o (IF digit THEN <<"7">> ELSE <<>>)
    \o (IF symbol THEN <<"#">> ELSE <<>>)

\* n more copies of the last character
Fill(pw, n) == IF pw = <<>> THEN <<>> ELSE [i \in 1..n |-> pw[Len(pw)]]

\* the arguments: a word, then any choice of classes, then up to MaxFill
\* repetitions of the last character
FnPasswords ==
    {LET base == w \o Pad(u, l, d, y) IN base \o Fill(base, n) :
        w \in FnWords, u \in BOOLEAN, l \in BOOLEAN, d \in BOOLEAN,
        y \in BOOLEAN, n \in 0..MaxFill}

RECURSIVE TokenStrings(_, _)
TokenStrings(tokens, n) ==
    IF n = 0 THEN {<<>>}
    ELSE LET shorter == TokenStrings(tokens, n - 1)
         IN  shorter \cup {p \o t : p \in shorter, t \in tokens}

FnInit ==
    /\ fnPassword \in FnPasswords
    /\ fnResult = null
    /\ fnBefore = null

FnIdle ==
    /\ fnPassword = <<>>
    /\ fnResult = null
    /\ fnBefore = null

FnApply ==
    /\ fnResult = null
    /\ fnResult' = analyzePasswordLocally(fnPassword)
    /\ UNCHANGED <<fnPassword, fnBefore>>
    /\ UNCHANGED <<pageVars, breachVars, evalVars>>

FnSubstitute(i, c) ==
    /\ fnResult # null
    /\ fnBefore = null
    /\ fnPassword[i] # c
    /\ fnBefore' = [password |-> fnPassword, result |-> fnResult]
    /\ fnPassword' = [fnPassword EXCEPT ![i] = c]
    /\ fnResult' = analyzePasswordLocally(fnPassword')
    /\ UNCHANGED <<pageVars, breachVars, evalVars>>

PageIdle ==
    /\ password = <<>>
    /\ analysis = null
    /\ isLoading = FALSE
    /\ inflight = <<>>
    /\ toastTitle = "none"
    /\ analysisOf = <<>>
    /\ probe = null

NextFn ==
    \/ FnApply
    \/ \E i \in {1, Len(fnPassword)} \cap DOMAIN fnPassword, c \in FnChars :
           FnSubstitute(i, c)


\* ------------------------------------------------------------ the page

MaxPageTokens == 2

PageTokens == {W_password123, W_Troubador}
PagePasswords == TokenStrings(PageTokens, MaxPageTokens)


\* useEffect(..., [password]) of the render that follows setPassword(value):
\* the value analysis is set to
\* the analysis called from onChange, where password is still the old value
useEffectPasswordStaleClosure(value) ==
    IF value # <<>> THEN analyzePasswordLocally(password) ELSE null
useEffectPassword(value) ==
    IF value # <<>> THEN analyzePasswordLocally(value) ELSE null

\* history of local evaluations: one evaluation is recorded, once, and it is
\* noted when another password is evaluated after it
Recorded(value, result) ==
    IF value = <<>> THEN {probe}
    ELSE IF probe = null
    THEN {null, [password |-> value, result |-> result, interleaved |-> FALSE]}
    ELSE IF probe.password # value
    THEN {[probe EXCEPT !.interleaved = TRUE]}
    ELSE {probe}

\* analysis.strength, undefined when the object has no such property
StrengthOf(a) ==
    IF "strength" \in DOMAIN a THEN a.strength ELSE "undefined"

undefined == [isUndefined |-> TRUE]

\* StrengthMeter's getStrengthConfig: a switch without a default
getStrengthConfig(strength) ==
    CASE strength = "weak" -> [color |-> "bg-red-500", label |-> "Weak"]
      [] strength = "moderate" -> [color |-> "bg-orange-500", label |-> "Moderate"]
      [] strength = "strong" -> [color |-> "bg-green-500", label |-> "Strong"]
      [] OTHER -> undefined

\* the render of Index: StrengthMeter is rendered for password && analysis,
\* and its config.icon throws when getStrengthConfig returned undefined
RenderThrows ==
    /\ password # <<>>
    /\ analysis # null
    /\ getStrengthConfig(StrengthOf(analysis)) = undefined

\* the page is on screen: no render has thrown
Mounted == ~RenderThrows

\* PasswordInput's onChange: setPassword(e.target.value), then the effect
OnChange(value) ==
    /\ Mounted
    /\ value # password
    /\ password' = value
    /\ analysis' = useEffectPassword(value)
    /\ analysisOf' = value
    /\ probe' \in Recorded(value, analysis')
    /\ UNCHANGED <<isLoading, inflight, toastTitle>>
    /\ UNCHANGED <<fnVars, breachVars, evalVars>>

\* the user types or pastes at the end of the input
TypeKeys(t) ==
    /\ password \o t \in PagePasswords
    /\ OnChange(password \o t)

\* the user selects the whole input and pastes over it
PasteOver(t) == OnChange(t)

\* the user empties the input
ClearInput == OnChange(<<>>)

\* the response body of POST /analyze for a password
BackendAnalysis(pw) ==
    [password_hash_prefix |-> "a665a45e",
     length |-> Len(pw),
     analyses |-> [rule_based |-> [method |-> "rule_based", score |-> 85,
                                   strength |-> "Strong", feedback |-> <<>>],
                   ml_models |-> [method |-> "ml_models"]],
     breach_check |-> [is_breached |-> FALSE, breach_count |-> 0],
     overall |-> [score |-> 80, strength |-> "Very Strong"]]

\* submitToBackend up to the await of fetch
submitToBackend ==
    IF password = <<>>
    THEN /\ toastTitle' = "Error"
         /\ UNCHANGED <<password, analysis, isLoading, inflight, analysisOf, probe>>
    ELSE /\ isLoading' = TRUE
         /\ inflight' = Append(inflight, [password |-> password])
         /\ UNCHANGED <<password, analysis, toastTitle, analysisOf, probe>>

\* a submit button without isLoading in disabled
ClickSubmitWhileLoading ==
    /\ Mounted
    /\ ~(password = <<>>)
    /\ submitToBackend
    /\ UNCHANGED <<fnVars, breachVars, evalVars>>
\* the submit button, disabled={!password || isLoading}
ClickSubmit ==
    /\ Mounted
    /\ ~(password = <<>> \/ isLoading)
    /\ submitToBackend
    /\ UNCHANGED <<fnVars, breachVars, evalVars>>

\* the requests in flight without the i-th
Settled(i) ==
    SubSeq(inflight, 1, i - 1) \o SubSeq(inflight, i + 1, Len(inflight))

\* submitToBackend after the await, response.ok
ResponseOk ==
    \E i \in DOMAIN inflight :
        /\ analysis' = BackendAnalysis(inflight[i].password)
        /\ analysisOf' = inflight[i].password
        /\ toastTitle' = "Analysis Complete"
        /\ isLoading' = FALSE
        /\ inflight' = Settled(i)
        /\ UNCHANGED <<password, probe>>
        /\ UNCHANGED <<fnVars, breachVars, evalVars>>

\* submitToBackend with setAnalysis(null) in the catch block
ResponseFailedClearsAnalysis ==
    \E i \in DOMAIN inflight :
        /\ toastTitle' = "Analysis Failed"
        /\ analysis' = null
        /\ isLoading' = FALSE
        /\ inflight' = Settled(i)
        /\ UNCHANGED <<password, analysisOf, probe>>
        /\ UNCHANGED <<fnVars, breachVars, evalVars>>
\* submitToBackend after the await, fetch threw or the response was not ok
ResponseFailed ==
    \E i \in DOMAIN inflight :
        /\ toastTitle' = "Analysis Failed"
        /\ isLoading' = FALSE
        /\ inflight' = Settled(i)
        /\ UNCHANGED <<password, analysis, analysisOf, probe>>
        /\ UNCHANGED <<fnVars, breachVars, evalVars>>

Next ==
    \/ \E t \in PageTokens : TypeKeys(t)
    \/ \E t \in PageTokens : PasteOver(t)
    \/ ClearInput
    \/ ClickSubmit
    \/ ResponseOk
    \/ ResponseFailed

\* ------------------------------------------------------ Breach Checker
\* The rate limiter of the breach lookup: one guarded "time of the last
\* outbound request", shared by every lookup of the process.

NumLookups == 2
MaxIdleTime == 3

\* the minimum interval between outbound requests, 1.5 time units
MinInterval == 3

Lookups == 1..NumLookups
NotYet == -1

Max(a, b) == IF a > b THEN a ELSE b

BreachInit ==
    /\ now = 0
    /\ lastRequestTime = 0 - MinInterval
    /\ lockHolders = {}
    /\ pc = [w \in Lookups |-> "idle"]
    /\ wakeAt = [w \in Lookups |-> 0]
    /\ arrivedAt = [w \in Lookups |-> NotYet]
    /\ sentAt = [w \in Lookups |-> NotYet]

\* a lookup is called (a request, or one item of a batch)
CheckBreach(w) ==
    /\ pc[w] = "idle"
    /\ pc' = [pc EXCEPT ![w] = "acquire"]
    /\ arrivedAt' = [arrivedAt EXCEPT ![w] = now]
    /\ UNCHANGED <<now, lastRequestTime, lockHolders, wakeAt, sentAt>>
    /\ UNCHANGED <<pageVars, fnVars, evalVars>>

\* entry into the section without the guard
AcquireUnguarded(w) ==
    /\ pc[w] = "acquire"
    /\ lockHolders' = lockHolders \cup {w}
    /\ pc' = [pc EXCEPT ![w] = "compare"]
    /\ UNCHANGED <<now, lastRequestTime, wakeAt, arrivedAt, sentAt>>
    /\ UNCHANGED <<pageVars, fnVars, evalVars>>

\* acquisition of the guard
Acquire(w) ==
    /\ pc[w] = "acquire"
    /\ lockHolders = {}
    /\ lockHolders' = {w}
    /\ pc' = [pc EXCEPT ![w] = "compare"]
    /\ UNCHANGED <<now, lastRequestTime, wakeAt, arrivedAt, sentAt>>
    /\ UNCHANGED <<pageVars, fnVars, evalVars>>

\* the compare: how long the interval still has to run
Compare(w) ==
    /\ pc[w] = "compare"
    /\ wakeAt' = [wakeAt EXCEPT ![w] = Max(now, lastRequestTime + MinInterval)]
    /\ pc' = [pc EXCEPT ![w] = "sleep"]
    /\ UNCHANGED <<now, lastRequestTime, lockHolders, arrivedAt, sentAt>>
    /\ UNCHANGED <<pageVars, fnVars, evalVars>>

\* the update, once the sleep is over, and the outbound request
SendRequest(w) ==
    /\ pc[w] = "sleep"
    /\ now >= wakeAt[w]
    /\ lastRequestTime' = now
    /\ sentAt' = [sentAt EXCEPT ![w] = now]
    /\ pc' = [pc EXCEPT ![w] = "release"]
    /\ UNCHANGED <<now, lockHolders, wakeAt, arrivedAt>>
    /\ UNCHANGED <<pageVars, fnVars, evalVars>>

\* release of the guard; the lookup returns its BreachRecord
Release(w) ==
    /\ pc[w] = "release"
    /\ lockHolders' = lockHolders \ {w}
    /\ pc' = [pc EXCEPT ![w] = "done"]
    /\ UNCHANGED <<now, lastRequestTime, wakeAt, arrivedAt, sentAt>>
    /\ UNCHANGED <<pageVars, fnVars, evalVars>>

\* time passes: while a lookup sleeps, and for MaxIdleTime otherwise
Tick ==
    /\ \/ now < MaxIdleTime
       \/ \E w \in Lookups : pc[w] = "sleep" /\ now < wakeAt[w]
    /\ now' = now + 1
    /\ UNCHANGED <<lastRequestTime, lockHolders, pc, wakeAt, arrivedAt, sentAt>>
    /\ UNCHANGED <<pageVars, fnVars, evalVars>>

NextBreach ==
    \/ \E w \in Lookups : CheckBreach(w)
    \/ \E w \in Lookups : Acquire(w)
    \/ \E w \in Lookups : Compare(w)
    \/ \E w \in Lookups : SendRequest(w)
    \/ \E w \in Lookups : Release(w)
    \/ Tick

\* ----------------------------------------------------------- evaluate
\* evaluate(password, {checkBreach}): the per-method ScoreResults, the breach
\* lookup when it is asked for, and the Aggregator.

MaxWeight == 2

\* the ML Ensemble is not loaded: its ScoreResult is absent
Absent == -1

ScoreSamples == {0, 39, 40, 69, 70, 100}

EvalInputs ==
    [rule : ScoreSamples, pattern : ScoreSamples, ml : ScoreSamples \cup {Absent},
     wRule : 1..MaxWeight, wPattern : 1..MaxWeight, wMl : 1..MaxWeight,
     checkBreach : BOOLEAN]

\* the weighted average over the methods that ran, the weights renormalized
OverallScore(in) ==
    LET total == in.wRule * in.rule + in.wPattern * in.pattern
                 + (IF in.ml = Absent THEN 0 ELSE in.wMl * in.ml)
        weight == in.wRule + in.wPattern + (IF in.ml = Absent THEN 0 ELSE in.wMl)
    IN  total \div weight

\* the ordered strength buckets and their thresholds
StrengthBucket(score) ==
    IF score < 40 THEN "weak"
    ELSE IF score < 70 THEN "moderate"
    ELSE "strong"

\* one bucket down; the lowest bucket has none below it
BucketBelow(label) ==
    IF label = "strong" THEN "moderate" ELSE "weak"

\* the Breach Checker's outcome for a reply of the remote corpus
BreachOutcomeFailureAsClean(reply) ==
    IF reply = "found" THEN "breached" ELSE "not_breached"
BreachOutcome(reply) ==
    CASE reply = "found" -> "breached"
      [] reply = "not_found" -> "not_breached"
      [] reply \in {"network_failure", "timeout", "malformed"} -> "unavailable"

\* the Aggregator: breach is "absent" when no lookup was asked for
AggregatorNoOverride(in, breach) ==
    [rule |-> in.rule, pattern |-> in.pattern, ml |-> in.ml,
     breach |-> breach,
     score |-> OverallScore(in),
     strength |-> StrengthBucket(OverallScore(in))]
Aggregator(in, breach) ==
    [rule |-> in.rule, pattern |-> in.pattern, ml |-> in.ml,
     breach |-> breach,
     score |-> OverallScore(in),
     strength |-> IF breach = "breached"
                  THEN BucketBelow(StrengthBucket(OverallScore(in)))
                  ELSE StrengthBucket(OverallScore(in))]

EvalInit ==
    /\ evInput \in EvalInputs
    /\ evStage = "called"
    /\ evRemote = "none"
    /\ evReport = null

EvalIdle ==
    /\ evInput = [rule |-> 0, pattern |-> 0, ml |-> Absent,
                  wRule |-> 1, wPattern |-> 1, wMl |-> 1, checkBreach |-> FALSE]
    /\ evStage = "called"
    /\ evRemote = "none"
    /\ evReport = null

\* the scoring methods have run; without checkBreach the report is returned
Evaluate ==
    /\ evStage = "called"
    /\ IF evInput.checkBreach
       THEN /\ evStage' = "lookup"
            /\ UNCHANGED evReport
       ELSE /\ evStage' = "returned"
            /\ evReport' = Aggregator(evInput, "absent")
    /\ UNCHANGED <<evInput, evRemote>>
    /\ UNCHANGED <<pageVars, fnVars, breachVars>>

\* the remote corpus answers, or fails to, and the report is returned
RemoteReply(reply) ==
    /\ evStage = "lookup"
    /\ evRemote' = reply
    /\ evStage' = "returned"
    /\ evReport' = Aggregator(evInput, BreachOutcome(reply))
    /\ UNCHANGED evInput
    /\ UNCHANGED <<pageVars, fnVars, breachVars>>

NextEval ==
    \/ Evaluate
    \/ \E reply \in {"found", "not_found", "network_failure", "timeout", "malformed"} :
           RemoteReply(reply)

\* --------------------------------------------------- the specifications

Init == PageIdle /\ FnIdle /\ BreachInit /\ EvalIdle
InitFn == PageIdle /\ FnInit /\ BreachInit /\ EvalIdle
InitEval == PageIdle /\ FnIdle /\ BreachInit /\ EvalInit

\* the page
Spec == Init /\ [][Next]_vars

\* the analysis functions on their own
SpecFn == InitFn /\ [][NextFn]_vars

\* evaluate and the Aggregator
SpecEval == InitEval /\ [][NextEval]_vars

\* the Breach Checker: every lookup that was called keeps running and the
\* clock keeps going
SpecBreach ==
    /\ Init
    /\ [][NextBreach]_vars
    /\ WF_vars(Tick)
    /\ \A w \in Lookups :
          WF_vars(Acquire(w) \/ Compare(w) \/ SendRequest(w) \/ Release(w))

\* ------------------------------------------------ properties of the page

\* the analysis on display is one analyzePasswordLocally produced
IsLocal(a) == "features" \in DOMAIN a

\* C4 as stated: "password123" yields feedback with "Avoid common words" and
\* the strength bucket weak.
C4_Password123Weak ==
    (password = W_password123 /\ IsLocal(analysis)) =>
        /\ S_common \in Range(analysis.suggestions)
        /\ analysis.strength = "weak"

\* C4 amended: "password123" yields feedback with "Avoid common words", score
\* 60 and the strength bucket moderate.
C4_Password123Moderate ==
    (password = W_password123 /\ IsLocal(analysis)) =>
        /\ S_common \in Range(analysis.suggestions)
        /\ analysis.score = 60
        /\ analysis.strength = "moderate"

C4_Witness ==
    /\ password = W_password123
    /\ IsLocal(analysis)
    /\ analysis.features.hasCommonWords

C13_AnalysisOfCurrentPassword ==
    (password # <<>> /\ analysis # null) => analysisOf = password

\* C14: at most one request is in flight, and isLoading is true exactly while
\* one is; no request was sent for an empty password.
C14_LoadingIffInFlight ==
    /\ Len(inflight) <= 1
    /\ isLoading <=> (Len(inflight) = 1)
    /\ \A i \in DOMAIN inflight : inflight[i].password # <<>>

\* a request is in flight for a password the input no longer holds
C14_Witness ==
    /\ isLoading
    /\ Len(inflight) = 1
    /\ inflight[1].password # password

\* C15 as stated: whenever analysis is non-null its strength is one of weak,
\* moderate, strong and its score is in [0,100], getStrengthConfig returns a
\* configuration and the render does not throw, also after a successful
\* backend response.
C15_RenderNeverFails ==
    (analysis # null) =>
        /\ StrengthOf(analysis) \in {"weak", "moderate", "strong"}
        /\ "score" \in DOMAIN analysis
        /\ analysis.score \in 0..100
        /\ getStrengthConfig(StrengthOf(analysis)) # undefined
        /\ ~RenderThrows

\* C16: the step of submitToBackend for a failed request leaves password and
\* analysis as they were, shows the error toast and sets isLoading to false.
C16_FailureKeepsAnalysis ==
    [][(Len(inflight') < Len(inflight) /\ toastTitle' = "Analysis Failed") =>
           /\ password' = password
           /\ analysis' = analysis
           /\ analysisOf' = analysisOf
           /\ isLoading' = FALSE
           /\ (password' # <<>> =>
                   analysis' = analyzePasswordLocally(password'))]_vars

\* a request failed and the local analysis of the password typed since is shown
C16_Witness ==
    /\ toastTitle = "Analysis Failed"
    /\ ~isLoading
    /\ inflight = <<>>
    /\ password = W_password123 \o W_Troubador
    /\ analysis = analyzePasswordLocally(password)

\* ------------------------------------------ properties of the functions

Applied == fnResult # null

Rank(strength) ==
    CASE strength = "weak" -> 0
      [] strength = "moderate" -> 1
      [] strength = "strong" -> 2

\* C1: for every password the score returned by calculateScore is within
\* [0,100]: the weighted sum is clamped to 100 and never goes below 0.
C1_ScoreInRange ==
    Applied => fnResult.score \in 0..100

\* a password whose weighted sum exceeds 100 was scored
C1_Witness ==
    /\ Applied
    /\ rawScore(fnResult.features) > 100
    /\ fnResult.score = 100

\* C2: the strength label is a non-decreasing function of the score:
\* score < 40 is weak, 40 <= score < 70 is moderate, score >= 70 is strong, and
\* no lower score in [0,100] gets a higher bucket, no higher score a lower one.
C2_StrengthMonotone ==
    Applied =>
        LET s2 == fnResult.score
        IN  /\ (s2 < 40) <=> (fnResult.strength = "weak")
            /\ (40 <= s2 /\ s2 < 70) <=> (fnResult.strength = "moderate")
            /\ (s2 >= 70) <=> (fnResult.strength = "strong")
            /\ \A s1 \in 0..100 :
                  /\ s1 <= s2 => Rank(getStrengthLevel(s1)) <= Rank(fnResult.strength)
                  /\ s1 >= s2 => Rank(getStrengthLevel(s1)) >= Rank(fnResult.strength)

\* a password in the middle bucket was scored
C2_Witness ==
    /\ Applied
    /\ fnResult.strength = "moderate"
    /\ fnResult.score >= 40

\* C3 as stated: the empty password yields score 0, strength weak and a
\* feedback list with the minimum-length suggestion.
C3_EmptyScoresZero ==
    (Applied /\ fnPassword = <<>>) =>
        /\ fnResult.score = 0
        /\ fnResult.strength = "weak"
        /\ S_length \in Range(fnResult.suggestions)

\* C3 amended: the empty password yields score 25 (15 for no common word and 10
\* for no keyboard pattern), strength weak and a feedback list with the
\* minimum-length suggestion.
C3_EmptyScores25 ==
    (Applied /\ fnPassword = <<>>) =>
        /\ fnResult.score = 25
        /\ fnResult.strength = "weak"
        /\ S_length \in Range(fnResult.suggestions)

C3_Witness ==
    /\ Applied
    /\ fnPassword = <<>>
    /\ Len(fnResult.suggestions) = 5

\* The seven suggestions in the order calculateScore evaluates their conditions,
\* each with the points of its condition.
SuggestionOrder ==
    <<S_length, S_upper, S_lower, S_digits, S_symbols, S_common, S_keyboard>>
SuggestionPoints == <<20, 15, 15, 15, 20, 15, 10>>

Index(s) == CHOOSE k \in DOMAIN SuggestionOrder : SuggestionOrder[k] = s

InScoringOrder(suggestions) ==
    /\ \A i \in DOMAIN suggestions : suggestions[i] \in Range(SuggestionOrder)
    /\ \A i, j \in DOMAIN suggestions :
          i < j => Index(suggestions[i]) < Index(suggestions[j])

\* condition k of the seven failed
Failed(features, k) ==
    CASE k = 1 -> features.length < 8
      [] k = 2 -> ~features.hasUppercase
      [] k = 3 -> ~features.hasLowercase
      [] k = 4 -> ~features.hasDigits
      [] k = 5 -> ~features.hasSymbols
      [] k = 6 -> features.hasCommonWords
      [] k = 7 -> features.hasKeyboardPatterns

RECURSIVE PointsOf(_)
PointsOf(suggestions) ==
    IF suggestions = <<>> THEN 0
    ELSE SuggestionPoints[Index(Head(suggestions))] + PointsOf(Tail(suggestions))

\* C7 as stated: the suggestions are in scoring order and every condition
\* whose points were withheld has a suggestion, the length >= 12 bonus included
\* (the only length suggestion is the minimum-length one).
C7_EveryWithheldConditionSuggested ==
    Applied =>
        /\ InScoringOrder(fnResult.suggestions)
        /\ \A k \in 1..7 :
              Failed(fnResult.features, k) =>
                  SuggestionOrder[k] \in Range(fnResult.suggestions)
        /\ fnResult.features.length < 12 => S_length \in Range(fnResult.suggestions)

\* C7 amended: the suggestions are in scoring order, there is exactly one for
\* each failed condition among length >= 8, uppercase, lowercase, digits, symbols,
\* no common word, no keyboard pattern, and none for the length >= 12 bonus:
\* the weighted sum is 120 less the points of the suggestions listed, less the
\* 10 points of the bonus when the length is under 12.
C7_SevenConditionsSuggested ==
    Applied =>
        /\ InScoringOrder(fnResult.suggestions)
        /\ \A k \in 1..7 :
              Failed(fnResult.features, k) <=>
                  SuggestionOrder[k] \in Range(fnResult.suggestions)
        /\ fnResult.score =
              Min(100, 120 - PointsOf(fnResult.suggestions)
                           - (IF fnResult.features.length < 12 THEN 10 ELSE 0))

\* a password of 8 to 11 characters with no suggestion at all was analysed
C7_Witness ==
    /\ Applied
    /\ fnResult.features.length \in 8..11
    /\ fnResult.suggestions = <<>>

\* the character classes present in a password
Classes(pw) ==
    {c \in {"lower", "upper", "digit", "symbol"} :
        \/ c = "lower" /\ \E i \in DOMAIN pw : IsLower(pw[i])
        \/ c = "upper" /\ \E i \in DOMAIN pw : IsUpper(pw[i])
        \/ c = "digit" /\ \E i \in DOMAIN pw : IsDigit(pw[i])
        \/ c = "symbol" /\ \E i \in DOMAIN pw : IsSymbol(pw[i])}

AddedClass ==
    /\ fnBefore # null
    /\ Applied
    /\ Len(fnBefore.password) = Len(fnPassword)
    /\ Classes(fnBefore.password) \subseteq Classes(fnPassword)
    /\ Classes(fnBefore.password) # Classes(fnPassword)

\* C8: for a fixed length, adding a previously unused character class never
\* decreases getCharsetSize and never decreases the entropy.
C8_EntropyMonotone ==
    AddedClass =>
        /\ getCharsetSize(fnPassword) >= getCharsetSize(fnBefore.password)
        /\ fnResult.entropy >= fnBefore.result.entropy

\* a symbol replaced a character of a password that had lowercase letters
\* and digits, and the entropy grew
C8_Witness ==
    /\ AddedClass
    /\ Classes(fnBefore.password) = {"lower", "digit"}
    /\ "symbol" \in Classes(fnPassword)
    /\ fnResult.entropy > fnBefore.result.entropy

\* C9: feature extraction of the empty string yields length 0, every
\* character-class flag false and entropy 0, a finite value.
C9_EmptyFeatures ==
    (Applied /\ fnPassword = <<>>) =>
        /\ fnResult.features.length = 0
        /\ ~fnResult.features.hasUppercase
        /\ ~fnResult.features.hasLowercase
        /\ ~fnResult.features.hasDigits
        /\ ~fnResult.features.hasSymbols
        /\ fnResult.entropy = 0
        /\ fnResult.entropy \notin {NegInfinity, PosInfinity}

C9_Witness ==
    /\ Applied
    /\ fnPassword = <<>>
    /\ fnResult.features.length = 0
    /\ getCharsetSize(fnPassword) = 0

\* ------------------------------------- properties of the Breach Checker

Sent(w) == sentAt[w] # NotYet

\* C10: any two outbound requests are at least MinInterval apart, and a
\* lookup that was called is sent, after blocking if it came early: it is
\* never dropped and never ends in an error.
C10_RateLimited ==
    /\ [](\A a, b \in Lookups :
             (a # b /\ Sent(a) /\ Sent(b) /\ sentAt[a] <= sentAt[b]) =>
                 sentAt[b] - sentAt[a] >= MinInterval)
    /\ [](\A w \in Lookups :
             /\ pc[w] \in {"idle", "acquire", "compare", "sleep", "release", "done"}
             /\ pc[w] = "done" => Sent(w))
    /\ \A w \in Lookups : (pc[w] = "acquire") ~> (pc[w] = "done" /\ Sent(w))

\* a lookup called before the interval after the previous request had elapsed
\* went out exactly MinInterval after that request
C10_Witness ==
    \E a, b \in Lookups :
        /\ a # b
        /\ pc[a] = "done"
        /\ pc[b] = "done"
        /\ arrivedAt[b] < sentAt[a] + MinInterval
        /\ arrivedAt[b] >= sentAt[a]
        /\ sentAt[b] = sentAt[a] + MinInterval

\* C17: a password for which generateSuggestions returns the empty list has
\* a score of at least 90 and the strength strong; a password whose strength
\* is weak or moderate has at least one suggestion.
C17_NoSuggestionsMeansStrong ==
    Applied =>
        /\ (fnResult.suggestions = <<>>) =>
               /\ fnResult.score >= 90
               /\ fnResult.score = calculateScore(fnResult.features)
               /\ fnResult.strength = "strong"
               /\ getStrengthLevel(fnResult.score) = "strong"
        /\ (fnResult.strength \in {"weak", "moderate"}) =>
               Len(fnResult.suggestions) >= 1

\* a password of 8 to 11 characters with every class and no pattern was analysed
C17_Witness ==
    /\ Applied
    /\ fnResult.suggestions = <<>>
    /\ fnResult.features.length < 12
    /\ fnResult.strength = "strong"

\* ------------------------------------------- properties of evaluate

Returned == evStage = "returned"

C12_FailureOnlyInBreachField ==
    (evRemote \in {"network_failure", "timeout", "malformed"}) =>
        /\ Returned
        /\ evReport # null
        /\ evReport.breach = "unavailable"
        /\ evReport.breach # Aggregator(evInput, BreachOutcome("not_found")).breach
        /\ [evReport EXCEPT !.breach = "absent"] = Aggregator(evInput, "absent")

\* a lookup timed out in an evaluation with the ML Ensemble present
C12_Witness ==
    /\ Returned
    /\ evRemote = "timeout"
    /\ evInput.ml # Absent
    /\ evReport.breach = "unavailable"

====
